---- MODULE Spec2Model ----
(***************************************************************************)
(* A model of three parts of the fuzzy car simulation:                     *)
(*   - src/src/reducer.rs: the reducer that turns UI actions into changes  *)
(*     of the camera and of the car system's add-mode;                     *)
(*   - src/src/car/fuzzy/road_deviation.rs: the seven membership functions *)
(*     of the road-deviation input;                                        *)
(*   - src/src/road/renderer.rs: the construction of the road's vertex and *)
(*     index lists and the update of the chosen-path buffer.               *)
(* Each part has its own specification; the variables of the other parts   *)
(* keep their initial values.                                              *)
(***************************************************************************)
EXTENDS Integers, Sequences, FiniteSets

VARIABLES
    \* reducer.rs: the Context fields reduce() reads and writes
    camera,            \* context.camera
    add_car,           \* context.car_system.add_car
    add_car_type,      \* context.car_system.add_car_type
    cars,              \* context.car_system's vehicles, in order of addition
    chosen_car,        \* context.car_system.chosen_car
    processed,         \* the actions reduce() has consumed, with their outcome
    camera_moves       \* how often the camera was zoomed or dragged so far

reducerVars == <<camera, add_car, add_car_type, cars, chosen_car, processed,
                 camera_moves>>

VARIABLES
    \* road_deviation.rs: the input of the fuzzy sets and their memberships
    dev,               \* the deviation x put in, in grid units
    member,            \* the membership of dev in each of the seven sets
    prev_dev,          \* the deviation put in before dev
    prev_member        \* its memberships

fuzzyVars == <<dev, member, prev_dev, prev_member>>

VARIABLES
    \* renderer.rs: construct_buffers() and the RoadRenderer it fills
    pc,                    \* where construct_buffers() stands
    road,                  \* the lanes and cross-sections of the road
    vertices,              \* construct_buffers: vertices
    indices,               \* construct_buffers: indices
    border_indices,        \* construct_buffers: border_indices
    lane_indices,          \* RoadRenderer.lane_indices
    cross_section_indices, \* RoadRenderer.cross_section_indices
    vertex_buffer,         \* RoadRenderer.vertex_buffer
    index_buffer,          \* RoadRenderer.index_buffer
    border_index_buffer,   \* RoadRenderer.border_index_buffer
    chosen_index_buffer,   \* RoadRenderer.chosen_index_buffer
    chosen_path,           \* road.chosen_path
    path_changed,          \* what road.chosen_path_changed() returns
    called                 \* the operation called last

listVars == <<vertices, indices, border_indices, lane_indices,
              cross_section_indices>>

bufferVars == <<vertex_buffer, index_buffer, border_index_buffer,
                chosen_index_buffer>>

renderVars == <<pc, road, listVars, bufferVars, chosen_path, path_changed,
                called>>

vars == <<reducerVars, fuzzyVars, renderVars>>

\* a step of one part leaves the other parts alone
ReducerOnly == UNCHANGED <<fuzzyVars, renderVars>>
FuzzyOnly == UNCHANGED <<reducerVars, renderVars>>
RenderOnly == UNCHANGED <<reducerVars, fuzzyVars>>

----------------------------------------------------------------------------
(* Bounds of the reducer model *)

\* the number of actions reduce() is followed through
MaxActions == 6

\* the camera actions and mouse-wheel events among and between them: one
\* for every three actions
MaxCameraMoves == MaxActions \div 3

\* screen coordinates of clicks and drags (one axis)
ScreenXs == {0, 1}

----------------------------------------------------------------------------
(* action.rs / reducer.rs: the actions *)

Zoom(v) == [tag |-> "Zoom", v |-> v]
Drag(from, to, completed) ==
    [tag |-> "Drag", from |-> from, to |-> to, completed |-> completed]

CameraActions ==
    {Zoom(v) : v \in {-1, 1}} \cup {Drag(0, 1, c) : c \in BOOLEAN}

Camera(a) == [tag |-> "Camera", action |-> a]
Click(x) == [tag |-> "Click", x |-> x]
Esc == [tag |-> "Esc"]
AddCar == [tag |-> "AddCar"]
AddCarSlow == [tag |-> "AddCarSlow"]

\* car::AddCar, the add-mode
Nope == [tag |-> "Nope"]
Adding == [tag |-> "Adding"]
AddedPoint(p) == [tag |-> "AddedPoint", p |-> p]

\* car::CarType
Normal(state) == [tag |-> "Normal", state |-> state]
Slow == [tag |-> "Slow"]
GoNormal == "GoNormal"

None == [tag |-> "None"]
Some(v) == [tag |-> "Some", v |-> v]

----------------------------------------------------------------------------
(* The collaborators of reduce(), each by its contract: the camera, the   *)
(* path planner behind Car::from_positions and the car system's own        *)
(* methods.  Positions are points of one axis.                             *)

Camera_new == [room_scale |-> 1, position |-> 0, temp_position |-> 0]

\* the room scale never falls below 1
increase_room_scale(cam, v) ==
    LET s == cam.room_scale + v
    IN [cam EXCEPT !.room_scale = IF s < 1 THEN 1 ELSE s]

screen_coords_to_world(cam, x) == x * cam.room_scale

screen_coords_to_real_position(cam, x) ==
    screen_coords_to_world(cam, x) + cam.position

get_old_position(cam) == cam.position

set_position(cam, pos) == [cam EXCEPT !.position = pos, !.temp_position = pos]

set_temp_position(cam, pos) == [cam EXCEPT !.temp_position = pos]

\* The path planner: lanes are directed, a path leads forward only.
PathExists(from, to) == from <= to

\* Car::from_positions(&road, prev_pos, p, car_type): a car on the path from
\* prev_pos to p, or none when the planner finds no path.
Car_from_positions(prev_pos, p, car_type) ==
    IF PathExists(prev_pos, p)
    THEN Some([start |-> prev_pos, end |-> p, car_type |-> car_type])
    ELSE None

\* CarSystem::add
CarSystem_add(cs, car) == Append(cs, car)

Dist(a, b) == IF a < b THEN b - a ELSE a - b

\* CarSystem::find_car_near: the car nearest to p, if there is a car
find_car_near(cs, p) ==
    IF cs = <<>> THEN None
    ELSE Some(CHOOSE i \in 1..Len(cs) :
            \A j \in 1..Len(cs) :
                \/ Dist(cs[i].start, p) < Dist(cs[j].start, p)
                \/ Dist(cs[i].start, p) = Dist(cs[j].start, p) /\ i <= j)

----------------------------------------------------------------------------
(* reducer.rs *)

\* camera_reducer(context, action)
camera_reducer(cam, action) ==
    IF action.tag = "Zoom"
    THEN increase_room_scale(cam, action.v)
    ELSE LET p0 == screen_coords_to_world(cam, action.from)
             p1 == screen_coords_to_world(cam, action.to)
             v == p0 - p1
             pos == get_old_position(cam)
         IN IF action.completed
            THEN set_position(cam, pos + v)
            ELSE set_temp_position(cam, pos + v)

\* what is recorded of one consumed action: the action, the real position
\* of a click, and the add-mode and the cars the action leaves
Outcome(action, p, mode, cs) ==
    [action |-> action, p |-> p, add_car |-> mode, cars |-> cs]

\* the match arm Action::Camera(action)
ReduceCamera(a) ==
    /\ Len(processed) < MaxActions
    /\ camera_moves < MaxCameraMoves
    /\ camera' = camera_reducer(camera, a)
    /\ camera_moves' = camera_moves + 1
    /\ processed' = Append(processed, Outcome(Camera(a), None, add_car, cars))
    /\ UNCHANGED <<add_car, add_car_type, cars, chosen_car>>
    /\ ReducerOnly

\* mutant: a click in idle mode already holds its point
ClickAddCar_IdleHolds(mode, p) ==
    IF mode.tag = "Nope" THEN AddedPoint(p)
    ELSE IF mode.tag = "Adding" THEN AddedPoint(p)
    ELSE Nope

\* mutant: the second click leaves add-mode waiting for another point
ClickAddCar_StaysArmed(mode, p) ==
    IF mode.tag = "Nope" THEN Nope
    ELSE IF mode.tag = "Adding" THEN AddedPoint(p)
    ELSE AddedPoint(mode.p)

\* the add-mode a click leaves (the value of the inner match)
ClickAddCar(mode, p) ==
    IF mode.tag = "Nope" THEN Nope
    ELSE IF mode.tag = "Adding" THEN AddedPoint(p)
    ELSE Nope

\* mutant: the result of Car::from_positions is not tested
ClickCars_Unchecked(mode, p, car_type, cs) ==
    IF mode.tag = "AddedPoint"
    THEN CarSystem_add(cs, [start |-> mode.p, end |-> p, car_type |-> car_type])
    ELSE cs

\* the cars a click leaves: the arm AddedPoint(prev_pos) adds the car that
\* Car::from_positions returns, when it returns one
ClickCars(mode, p, car_type, cs) ==
    IF mode.tag = "AddedPoint"
    THEN LET car == Car_from_positions(mode.p, p, car_type)
         IN IF car.tag = "Some" THEN CarSystem_add(cs, car.v) ELSE cs
    ELSE cs

\* the match arm Action::Click(x, y)
ReduceClick(x) ==
    /\ Len(processed) < MaxActions
    /\ LET p == screen_coords_to_real_position(camera, x)
       IN /\ add_car' = ClickAddCar(add_car, p)
          /\ cars' = ClickCars(add_car, p, add_car_type, cars)
          /\ chosen_car' = IF add_car.tag = "Nope"
                           THEN find_car_near(cars, p) ELSE chosen_car
          /\ processed' = Append(processed,
                                 Outcome(Click(x), Some(p), add_car', cars'))
    /\ UNCHANGED <<camera, add_car_type, camera_moves>>
    /\ ReducerOnly

\* mutant: Esc leaves a held point in place
EscAddCar_KeepsPoint(mode) == IF mode.tag = "AddedPoint" THEN mode ELSE Nope

\* the add-mode Action::Esc leaves
EscAddCar(mode) == Nope

\* the match arm Action::Esc
ReduceEsc ==
    /\ Len(processed) < MaxActions
    /\ add_car' = EscAddCar(add_car)
    /\ processed' = Append(processed, Outcome(Esc, None, add_car', cars))
    /\ UNCHANGED <<camera, add_car_type, cars, chosen_car, camera_moves>>
    /\ ReducerOnly

\* the match arm Action::AddCar
ReduceAddCar ==
    /\ Len(processed) < MaxActions
    /\ add_car' = Adding
    /\ add_car_type' = Normal(GoNormal)
    /\ processed' = Append(processed, Outcome(AddCar, None, add_car', cars))
    /\ UNCHANGED <<camera, cars, chosen_car, camera_moves>>
    /\ ReducerOnly

\* the match arm Action::AddCarSlow
ReduceAddCarSlow ==
    /\ Len(processed) < MaxActions
    /\ add_car' = Adding
    /\ add_car_type' = Slow
    /\ processed' = Append(processed, Outcome(AddCarSlow, None, add_car', cars))
    /\ UNCHANGED <<camera, cars, chosen_car, camera_moves>>
    /\ ReducerOnly

\* the car system before the first action: idle, no car
InitReducer ==
    /\ camera = Camera_new
    /\ add_car = Nope
    /\ add_car_type \in {Normal(GoNormal), Slow}
    /\ cars = <<>>
    /\ chosen_car = None
    /\ processed = <<>>
    /\ camera_moves = 0

\* context.rs: the lines v of a MouseScrollDelta::LineDelta(_h, v)
WheelLines == {-1, 1}

\* Context::handle_mouse_wheel: increase_room_scale(-v as i32)
handle_mouse_wheel(cam, v) == increase_room_scale(cam, 0 - v)

\* Context::handle_event on a MouseWheel event: the camera zooms at once,
\* no action is consumed.  Every other event leaves the context as it is.
HandleEvent(v) ==
    /\ camera_moves < MaxCameraMoves
    /\ camera' = handle_mouse_wheel(camera, v)
    /\ camera_moves' = camera_moves + 1
    /\ UNCHANGED <<add_car, add_car_type, cars, chosen_car, processed>>
    /\ ReducerOnly

\* one iteration of the loop of reduce(), or an event handled by the
\* context
NextReducer ==
    \/ \E v \in WheelLines : HandleEvent(v)
    \/ \E a \in CameraActions : ReduceCamera(a)
    \/ \E x \in ScreenXs : ReduceClick(x)
    \/ ReduceEsc
    \/ ReduceAddCar
    \/ ReduceAddCarSlow

----------------------------------------------------------------------------
(* The reducer's properties, over the record of the consumed actions *)

Steps == 1..Len(processed)

ModeBefore(j) == IF j = 1 THEN Nope ELSE processed[j - 1].add_car

CarsBefore(j) == IF j = 1 THEN <<>> ELSE processed[j - 1].cars

IsClick(j) == processed[j].action.tag = "Click"

IsEsc(j) == processed[j].action.tag = "Esc"

IsTypeCommand(j) == processed[j].action.tag \in {"AddCar", "AddCarSlow"}

PlacedCar(j) == processed[j].cars # CarsBefore(j)

\* a click in state AddedPoint(prev) for which the planner finds no path
FailedPlacement(j) ==
    /\ IsClick(j)
    /\ ModeBefore(j).tag = "AddedPoint"
    /\ ~PathExists(ModeBefore(j).p, processed[j].p.v)

\* C1: a click in state AddedPoint(prev) with no path from prev to the
\* clicked point adds no vehicle, leaves the vehicles as they were and
\* leaves add-mode idle; the reducer goes on with the next action.
C1_FailedPlacementDiscarded ==
    \A j \in Steps :
        FailedPlacement(j) =>
            /\ processed[j].cars = CarsBefore(j)
            /\ processed[j].add_car = Nope
            /\ (j = Len(processed) =>
                    /\ cars = CarsBefore(j)
                    /\ add_car = Nope
                    /\ (Len(processed) < MaxActions => ENABLED NextReducer))

\* a placement failed, and a later action was consumed
C1_Witness ==
    \E j \in Steps : FailedPlacement(j) /\ j < Len(processed)

\* C2: Esc leaves add-mode idle from every add-mode and adds no vehicle,
\* and no click after an Esc places a vehicle before an AddCar or
\* AddCarSlow has been consumed in between.
C2_EscCancels ==
    /\ \A j \in Steps :
            IsEsc(j) => /\ processed[j].add_car = Nope
                        /\ processed[j].cars = CarsBefore(j)
    /\ \A i \in Steps : \A j \in Steps :
            (i < j /\ IsEsc(i) /\ IsClick(j) /\ PlacedCar(j))
                => \E k \in (i + 1)..(j - 1) : IsTypeCommand(k)

\* Esc was consumed while a point was held and while the second point was
\* awaited, and a click followed the Esc of the held point
C2_Witness ==
    \E i \in Steps : \E j \in Steps : \E k \in Steps :
        /\ IsEsc(i) /\ ModeBefore(i).tag = "Adding"
        /\ IsEsc(j) /\ ModeBefore(j).tag = "AddedPoint"
        /\ k = j + 1 /\ IsClick(k)

\* the actions i..j are a type command, one click (at m) and camera actions
ArmedBy(i, m, j) ==
    /\ i < m /\ m <= j
    /\ IsTypeCommand(i)
    /\ IsClick(m)
    /\ \A k \in (i + 1)..j : k # m => processed[k].action.tag = "Camera"

\* C3: a vehicle is added only by a click consumed in state
\* AddedPoint(prev); that state is entered only by a type command followed
\* by exactly one click, with no Esc or type command in between; the
\* vehicle leads from the first clicked position to the second, and the
\* second click leaves add-mode idle.  A click in idle mode leaves add-mode
\* idle and adds no vehicle.
C3_PlacementNeedsTwoClicks ==
    /\ \A j \in Steps :
            processed[j].add_car.tag = "AddedPoint" =>
                \E i \in Steps : \E m \in Steps :
                    /\ ArmedBy(i, m, j)
                    /\ processed[j].add_car.p = processed[m].p.v
    /\ \A j \in Steps :
            PlacedCar(j) =>
                /\ IsClick(j)
                /\ ModeBefore(j).tag = "AddedPoint"
                /\ Len(processed[j].cars) = Len(CarsBefore(j)) + 1
                /\ SubSeq(processed[j].cars, 1, Len(CarsBefore(j)))
                       = CarsBefore(j)
                /\ LET car == processed[j].cars[Len(processed[j].cars)]
                   IN /\ car.start = ModeBefore(j).p
                      /\ car.end = processed[j].p.v
                /\ processed[j].add_car = Nope
    /\ \A j \in Steps :
            (IsClick(j) /\ ModeBefore(j) = Nope) =>
                /\ processed[j].add_car = Nope
                /\ ~PlacedCar(j)

\* a vehicle was placed with camera actions between the command and the
\* clicks, and a later click in idle mode was consumed
C3_Witness ==
    \E j \in Steps : \E k \in Steps :
        /\ PlacedCar(j)
        /\ \E c \in 1..(j - 1) : processed[c].action.tag = "Camera"
                                    /\ ModeBefore(c) # Nope
        /\ j < k /\ IsClick(k) /\ ModeBefore(k) = Nope

\* the type that the type command consumed at i sets
TypeOf(i) ==
    IF processed[i].action.tag = "AddCar" THEN Normal(GoNormal) ELSE Slow

\* C4: every vehicle added has the type set by the last AddCar (Normal in
\* state GoNormal) or AddCarSlow (Slow) before it, and between two
\* placements there is always such a command.
C4_TypeOfNextPlacementOnly ==
    /\ \A j \in Steps :
            PlacedCar(j) =>
                \E i \in 1..(j - 1) :
                    /\ IsTypeCommand(i)
                    /\ \A k \in (i + 1)..(j - 1) : ~IsTypeCommand(k)
                    /\ processed[j].cars[Len(processed[j].cars)].car_type
                            = TypeOf(i)
    /\ \A i \in Steps : \A j \in Steps :
            (i < j /\ PlacedCar(i) /\ PlacedCar(j))
                => \E k \in (i + 1)..(j - 1) : IsTypeCommand(k)

\* two vehicles were placed, a Normal one and a Slow one
C4_Witness ==
    /\ Len(cars) = 2
    /\ cars[1].car_type # cars[2].car_type
    /\ \E i \in Steps : \E j \in Steps : i < j /\ PlacedCar(i) /\ PlacedCar(j)

----------------------------------------------------------------------------
(* road_deviation.rs: the membership functions, in the f32 arithmetic of   *)
(* the source: every literal, difference and quotient is rounded to the    *)
(* nearest f32, ties to even.                                              *)

\* how far outside of [0, 1] the deviations put in reach, in grid units
Margin == 20

\* A finite f32: the value s * m * 2^e, with the sign s in {1, -1} and the
\* significand 2^23 <= m < 2^24; zero is m = 0 (with s = 1, e = 0).
\* Infinities, NaN and subnormal numbers are not in reach of the inputs.
F32(s, m, e) == [s |-> s, m |-> m, e |-> e]

F32Zero == F32(1, 0, 0)

\* the number of binary digits of n >= 0
RECURSIVE BitLen(_)
BitLen(n) == IF n = 0 THEN 0 ELSE 1 + BitLen(n \div 2)

\* the f32 nearest to s * n * 2^e (0 <= n < 2^31), ties to even
F32Round(s, n, e) ==
    IF n = 0 THEN F32Zero
    ELSE LET b == BitLen(n)
         IN IF b <= 24
            THEN F32(s, n * 2^(24 - b), e - (24 - b))
            ELSE LET sh == b - 24
                     q == n \div 2^sh
                     r == n % 2^sh
                     half == 2^(sh - 1)
                     up == r > half \/ (r = half /\ q % 2 = 1)
                     q1 == IF up THEN q + 1 ELSE q
                 IN IF q1 = 2^24
                    THEN F32(s, 2^23, e + sh + 1)
                    ELSE F32(s, q1, e + sh)

\* an integer of at most 24 bits as f32
F32FromInt(n) == IF n < 0 THEN F32Round(-1, 0 - n, 0) ELSE F32Round(1, n, 0)

F32One == F32FromInt(1)

F32Neg(a) == IF a.m = 0 THEN a ELSE F32(0 - a.s, a.m, a.e)

\* |a| < |b|
MagLt(a, b) ==
    IF a.m = 0 THEN b.m # 0
    ELSE IF b.m = 0 THEN FALSE
    ELSE a.e < b.e \/ (a.e = b.e /\ a.m < b.m)

\* the f32 comparisons < and <=
F32Lt(a, b) ==
    IF a.s = b.s
    THEN IF a.s = 1 THEN MagLt(a, b) ELSE MagLt(b, a)
    ELSE a.s = -1

F32Le(a, b) == a = b \/ F32Lt(a, b)

\* n > 0 shifted right by d digits, one digit kept more than asked for:
\* the last digit tells whether digits other than 0 were shifted out
ShiftSticky(n, d) ==
    IF d >= 27 THEN 1
    ELSE 2 * (n \div 2^d) + (IF n % 2^d = 0 THEN 0 ELSE 1)

\* the f32 sum a + b
F32Add(a, b) ==
    IF a.m = 0 THEN b
    ELSE IF b.m = 0 THEN a
    ELSE LET big == IF MagLt(a, b) THEN b ELSE a
             small == IF MagLt(a, b) THEN a ELSE b
             B == big.m * 16
             S == ShiftSticky(small.m * 8, big.e - small.e)
         IN IF a.s = b.s
            THEN F32Round(big.s, B + S, big.e - 4)
            ELSE F32Round(big.s, B - S, big.e - 4)

\* the f32 difference a - b
F32Sub(a, b) == F32Add(a, F32Neg(b))

\* long division: bits further digits of the quotient q, with the
\* remainder rem < den
RECURSIVE DivBits(_, _, _, _)
DivBits(q, rem, den, bits) ==
    IF bits = 0 THEN [q |-> q, rem |-> rem]
    ELSE IF 2 * rem >= den
         THEN DivBits(2 * q + 1, 2 * rem - den, den, bits - 1)
         ELSE DivBits(2 * q, 2 * rem, den, bits - 1)

\* the f32 quotient a / b, b other than zero
F32Div(a, b) ==
    IF a.m = 0 THEN F32Zero
    ELSE LET r == DivBits(a.m \div b.m, a.m % b.m, b.m, 26)
             n == 2 * r.q + (IF r.rem = 0 THEN 0 ELSE 1)
         IN F32Round(a.s * b.s, n, a.e - b.e - 27)

\* the decimal literal n / d as f32: the f32 nearest to it
F32Lit(n, d) == F32Div(F32FromInt(n), F32FromInt(d))

\* the f32 next above and next below a > 0
F32Succ(a) ==
    IF a.m + 1 = 2^24 THEN F32(a.s, 2^23, a.e + 1) ELSE F32(a.s, a.m + 1, a.e)

F32Pred(a) ==
    IF a.m = 2^23 THEN F32(a.s, 2^24 - 1, a.e - 1) ELSE F32(a.s, a.m - 1, a.e)

\* An input: the grid point k * 0.005, or for k > 0 the f32 next below
\* (ulps = -1) or next above (ulps = 1) it.
Input(k, ulps) == [k |-> k, ulps |-> ulps]

\* the input range of fuzzy.add_input(0.0, 1.0), in grid units
Zero == 0
One == 200

DevGrid ==
    {Input(k, 0) : k \in (Zero - Margin)..(One + Margin)}
        \cup {Input(k, u) : k \in (Zero + 1)..(One + Margin), u \in {-1, 1}}

\* the f32 x of an input
X(d) ==
    LET g == F32Lit(d.k, One)
    IN CASE d.ulps = 0 -> g
         [] d.ulps = 1 -> F32Succ(g)
         [] d.ulps = -1 -> F32Pred(g)

\* mutant: the descent is divided by x2 instead of x2 - x1
far_left_fn_DividedByX2(x) ==
    LET x1 == F32Lit(10, 100)
        x2 == F32Lit(25, 100)
    IN IF F32Lt(x, x1) THEN F32One
       ELSE IF F32Lt(x, x2) THEN F32Div(F32Sub(x2, x), x2)
       ELSE F32Zero

far_left_fn(x) ==
    LET x1 == F32Lit(10, 100)
        x2 == F32Lit(25, 100)
    IN IF F32Lt(x, x1) THEN F32One
       ELSE IF F32Lt(x, x2) THEN F32Div(F32Sub(x2, x), F32Sub(x2, x1))
       ELSE F32Zero

middle_left_fn(x) ==
    LET x1 == F32Lit(10, 100)
        x2 == F32Lit(25, 100)
        x3 == F32Lit(40, 100)
    IN IF F32Lt(x, x1) THEN F32Zero
       ELSE IF F32Lt(x, x2) THEN F32Div(F32Sub(x, x1), F32Sub(x2, x1))
       ELSE IF F32Lt(x, x3) THEN F32Div(F32Sub(x3, x), F32Sub(x3, x2))
       ELSE F32Zero

left_fn(x) ==
    LET x1 == F32Lit(35, 100)
        x2 == F32Lit(50, 100)
    IN IF F32Lt(x, x1) THEN F32One
       ELSE IF F32Lt(x, x2) THEN F32Div(F32Sub(x2, x), F32Sub(x2, x1))
       ELSE F32Zero

\* mutant: the falling side of the triangle is missing
middle_fn_RisingOnly(x) ==
    LET x1 == F32Lit(35, 100)
        x2 == F32Lit(50, 100)
    IN IF F32Lt(x, x1) THEN F32Zero
       ELSE IF F32Lt(x, x2) THEN F32Div(F32Sub(x, x1), F32Sub(x2, x1))
       ELSE F32Zero

middle_fn(x) ==
    LET x1 == F32Lit(35, 100)
        x2 == F32Lit(50, 100)
        x3 == F32Lit(65, 100)
    IN IF F32Lt(x, x1) THEN F32Zero
       ELSE IF F32Lt(x, x2) THEN F32Div(F32Sub(x, x1), F32Sub(x2, x1))
       ELSE IF F32Lt(x, x3) THEN F32Div(F32Sub(x3, x), F32Sub(x3, x2))
       ELSE F32Zero

right_fn(x) ==
    LET x1 == F32Lit(50, 100)
        x2 == F32Lit(65, 100)
    IN IF F32Lt(x, x1) THEN F32Zero
       ELSE IF F32Lt(x, x2) THEN F32Div(F32Sub(x, x1), F32Sub(x2, x1))
       ELSE F32One

middle_right_fn(x) ==
    LET x1 == F32Lit(60, 100)
        x2 == F32Lit(75, 100)
        x3 == F32Lit(90, 100)
    IN IF F32Lt(x, x1) THEN F32Zero
       ELSE IF F32Lt(x, x2) THEN F32Div(F32Sub(x, x1), F32Sub(x2, x1))
       ELSE IF F32Lt(x, x3) THEN F32Div(F32Sub(x3, x), F32Sub(x3, x2))
       ELSE F32Zero

far_right_fn(x) ==
    LET x1 == F32Lit(75, 100)
        x2 == F32Lit(90, 100)
    IN IF F32Lt(x, x1) THEN F32Zero
       ELSE IF F32Lt(x, x2) THEN F32Div(F32Sub(x, x1), F32Sub(x2, x1))
       ELSE F32One

\* the sets RoadDeviation::new adds to the input
SetNames ==
    {"far_left", "middle_left", "left", "middle",
     "right", "middle_right", "far_right"}

\* the membership of x in every set
Memberships(x) ==
    [s \in SetNames |->
        CASE s = "far_left" -> far_left_fn(x)
          [] s = "middle_left" -> middle_left_fn(x)
          [] s = "left" -> left_fn(x)
          [] s = "middle" -> middle_fn(x)
          [] s = "right" -> right_fn(x)
          [] s = "middle_right" -> middle_right_fn(x)
          [] s = "far_right" -> far_right_fn(x)]

NotEvaluated == <<>>

\* the first deviation is evaluated
Evaluate ==
    /\ member = NotEvaluated
    /\ member' = Memberships(X(dev))
    /\ UNCHANGED <<dev, prev_dev, prev_member>>
    /\ FuzzyOnly

\* the next deviation is put in and evaluated
EvaluateNext(d) ==
    /\ member # NotEvaluated
    /\ prev_dev' = dev
    /\ prev_member' = member
    /\ dev' = d
    /\ member' = Memberships(X(d))
    /\ FuzzyOnly

InitFuzzy ==
    /\ dev \in DevGrid
    /\ member = NotEvaluated
    /\ prev_dev = dev
    /\ prev_member = NotEvaluated

\* the inputs next to d: the neighbouring grid points, and the f32 next to
\* a grid point
Neighbours(d) ==
    IF d.ulps = 0
    THEN {Input(d.k - 1, 0), Input(d.k + 1, 0),
          Input(d.k, -1), Input(d.k, 1)} \cap DevGrid
    ELSE {Input(d.k, 0)}

\* the deviation moves on to a neighbouring input
NextFuzzy ==
    \/ Evaluate
    \/ \E d \in Neighbours(dev) : EvaluateNext(d)

----------------------------------------------------------------------------
(* The membership functions' properties *)

\* the grid point of the decimal h / 100 and of m / 1000 (m a multiple of 5)
Hundredths(h) == Input(2 * h, 0)
Thousandths(m) == Input(m \div 5, 0)

Positive(v) == F32Lt(F32Zero, v)

\* C5: for every deviation in [0, 1], at least one of the seven sets has a
\* membership above 0.
C5_PartitionCoverage ==
    (/\ member # NotEvaluated
     /\ F32Le(F32Zero, X(dev))
     /\ F32Le(X(dev), F32One))
        => \E s \in SetNames : Positive(member[s])

\* a breakpoint at which only one set is above 0 was evaluated
C5_Witness ==
    /\ member # NotEvaluated
    /\ dev = Hundredths(50)
    /\ Cardinality({s \in SetNames : Positive(member[s])}) = 1

\* the deviations where a set is meant to be above 0 (section 4.2)
InSupport(s, x) ==
    CASE s = "far_left" -> F32Lt(x, F32Lit(25, 100))
      [] s = "middle_left" ->
            F32Lt(F32Lit(10, 100), x) /\ F32Lt(x, F32Lit(40, 100))
      [] s = "left" -> F32Lt(x, F32Lit(50, 100))
      [] s = "middle" ->
            F32Lt(F32Lit(35, 100), x) /\ F32Lt(x, F32Lit(65, 100))
      [] s = "right" -> F32Lt(F32Lit(50, 100), x)
      [] s = "middle_right" ->
            F32Lt(F32Lit(60, 100), x) /\ F32Lt(x, F32Lit(90, 100))
      [] s = "far_right" -> F32Lt(F32Lit(75, 100), x)

\* a membership 0 <= v <= 1 in units of 2^-24, rounded down
Fix(v) ==
    IF v.m = 0 \/ v.e < -48 THEN 0
    ELSE IF v.e >= -24 THEN v.m * 2^(v.e + 24)
    ELSE v.m \div 2^(0 - 24 - v.e)

Abs(n) == IF n < 0 THEN 0 - n ELSE n

\* what rounding may add to a membership: 2^-20, in units of 2^-24
Tolerance == 2^4

\* the values the sets have at their breakpoints, where two pieces meet
AtBreakpoints ==
    /\ dev = Hundredths(10)
          => member["far_left"] = F32One /\ member["middle_left"] = F32Zero
    /\ dev = Hundredths(25)
          => /\ member["far_left"] = F32Zero
             /\ member["middle_left"] = F32One
    /\ dev = Hundredths(40) => member["middle_left"] = F32Zero
    /\ dev = Hundredths(35)
          => member["left"] = F32One /\ member["middle"] = F32Zero
    /\ dev = Hundredths(50)
          => /\ member["left"] = F32Zero
             /\ member["middle"] = F32One
             /\ member["right"] = F32Zero
    /\ dev = Hundredths(65)
          => member["middle"] = F32Zero /\ member["right"] = F32One
    /\ dev = Hundredths(60) => member["middle_right"] = F32Zero
    /\ dev = Hundredths(75)
          => /\ member["middle_right"] = F32One
             /\ member["far_right"] = F32Zero
    /\ dev = Hundredths(90)
          => /\ member["middle_right"] = F32Zero
             /\ member["far_right"] = F32One

\* C6: every membership lies in [0, 1], is exactly 0 outside the set's
\* support, and is continuous: at every breakpoint the value is the one
\* both pieces have there (the triangles reach 1 at 0.25, 0.50 and 0.75),
\* from a breakpoint or any grid point to the f32 next to it the
\* membership changes by no more than rounding allows, and from a grid
\* point to the next one by no more than the slope of a side, 0.005 / 0.15.
\* far_left is 1 below 0.10, the f32 value of (0.25 - x) / 0.15 on
\* [0.10, 0.25), which is within 2^-20 of the exact quotient and is 0.5
\* at 0.175, and 0 from 0.25 on.
C6_MembershipShape ==
    member # NotEvaluated =>
        LET x == X(dev)
            far_left == member["far_left"]
        IN
        /\ \A s \in SetNames :
              /\ F32Le(F32Zero, member[s])
              /\ F32Le(member[s], F32One)
              /\ ~InSupport(s, x) => member[s] = F32Zero
              /\ (prev_member # NotEvaluated /\ prev_dev # dev)
                  => LET step == Abs(Fix(member[s]) - Fix(prev_member[s]))
                     IN IF dev.ulps = 0 /\ prev_dev.ulps = 0
                        THEN 30 * step <= 2^24 + 30 * Tolerance
                        ELSE step <= Tolerance
        /\ AtBreakpoints
        /\ F32Lt(x, F32Lit(10, 100)) => far_left = F32One
        /\ (F32Le(F32Lit(10, 100), x) /\ F32Lt(x, F32Lit(25, 100)))
              => /\ far_left
                      = F32Div(F32Sub(F32Lit(25, 100), x), F32Lit(15, 100))
                 /\ dev.ulps = 0
                      => Abs(30 * Fix(far_left) - (50 - dev.k) * 2^24)
                            <= 30 * Tolerance
        /\ dev = Thousandths(175) => far_left = F32Lit(1, 2)
        /\ F32Le(F32Lit(25, 100), x) => far_left = F32Zero

\* 0.175 was evaluated right after its neighbour on the grid
C6_Witness ==
    /\ member # NotEvaluated
    /\ prev_member # NotEvaluated
    /\ dev = Thousandths(175)
    /\ prev_dev = Input(dev.k - 1, 0)
    /\ member["far_left"] = F32Lit(1, 2)

----------------------------------------------------------------------------
(* renderer.rs: the construction of the vertex and index lists *)

\* the most lanes, cross-sections, and segments of a boundary, of a road
MaxLanes == 2
MaxCrossSections == 1
MaxSegments == 2

BEZIER_VCOUNT == 16

\* A Vec is held as its elements in pages of PageSize, the last page being
\* the only one that may be short: TLC handles a long sequence of short
\* sequences far better than one long sequence.  The element at position
\* i >= 1 of the Vec is VecAt(v, i); an index ix of the source is the
\* position ix + 1.
PageSize == 256

EmptyVec == <<>>

\* Vec::len
VecLen(v) ==
    IF v = <<>> THEN 0 ELSE PageSize * (Len(v) - 1) + Len(v[Len(v)])

VecAt(v, i) == v[((i - 1) \div PageSize) + 1][((i - 1) % PageSize) + 1]

\* Vec::push of the elements of the sequence s, in order
\* (Vec::extend_from_slice); slice is s as an explicit sequence value
VecExtend(v, s) ==
    LET slice == s \o <<>>
        old == VecLen(v)
        new == old + Len(slice)
        full == old \div PageSize
        pages == (new + PageSize - 1) \div PageSize
        At(i) == IF i <= old THEN VecAt(v, i) ELSE slice[i - old]
    IN [p \in 1..pages |->
            IF p <= full THEN v[p]
            ELSE [o \in 1..(IF p < pages THEN PageSize
                                         ELSE new - PageSize * (pages - 1)) |->
                    At(PageSize * (p - 1) + o)]]

\* the elements of a Vec as one sequence
VecToSeq(v) == [i \in 1..VecLen(v) |-> VecAt(v, i)]

\* a DirectedBezier of the road: segment seg of one boundary of a lane or
\* cross-section
Bezier(unit, no, side, seg) ==
    [unit |-> unit, no |-> no, side |-> side, seg |-> seg]

\* road.get_bezier(b).pos(k / BEZIER_VCOUNT): the point of the curve
Pos(b, k) == [bezier |-> b, k |-> k]

Boundary(unit, no, side, n) == [s \in 1..n |-> Bezier(unit, no, side, s)]

\* lane number no of the road, with nl left and nr right segments
Lane(no, from, to, nl, nr) ==
    [from |-> from, to |-> to,
     left |-> Boundary("lane", no, "left", nl),
     right |-> Boundary("lane", no, "right", nr)]

\* cross-section number no of the road
CrossSection(no, from, across, to, nl, nr) ==
    [from |-> from, across |-> across, to |-> to,
     left |-> Boundary("cross_section", no, "left", nl),
     right |-> Boundary("cross_section", no, "right", nr)]

\* add_vertex: the index returned for a list that held len vertices,
\* `index as u16`
add_vertex_index(len) == len % 65536

\* mutant: left may be shorter than right
BezierCountsOk_AtMost(left, right) ==
    Len(left) > 0 /\ Len(left) <= Len(right)

\* the two assertions of update_from_beziers
BezierCountsOk(left, right) ==
    Len(left) > 0 /\ Len(left) = Len(right)

\* mutant: the parameter is k / BEZIER_VCOUNT
StepParam_FromZero(k) == k

\* the numerator of v = (k + 1) / BEZIER_VCOUNT
StepParam(k) == k + 1

Panic == [panic |-> TRUE]

\* update_from_beziers.  The two loops are flattened: t = 1 .. the number of
\* runs of the inner body, run t being that of i = SegOf(t) - 1 and
\* k = KOf(t).  Every add_vertex pushes one vertex, so the length of the
\* list at each call is known from t.
update_from_beziers(vs, is, bs, left, right, rs) ==
    IF ~BezierCountsOk(left, right) THEN Panic
    ELSE
    LET bezier_count == Len(left)
        runs == bezier_count * BEZIER_VCOUNT
        len0 == VecLen(vs)
        SegOf(t) == ((t - 1) \div BEZIER_VCOUNT) + 1
        KOf(t) == (t - 1) % BEZIER_VCOUNT
        a(t) == Pos(left[SegOf(t)], StepParam(KOf(t)))
        b(t) == Pos(right[SegOf(t)], StepParam(KOf(t)))
        first1 == add_vertex_index(len0)
        first2 == add_vertex_index(len0 + 1)
        i1(t) == add_vertex_index(len0 + 2 + 2 * (t - 1))
        i2(t) == add_vertex_index(len0 + 2 + 2 * (t - 1) + 1)
        index1_prev(t) == IF t = 1 THEN first1 ELSE i1(t - 1)
        index2_prev(t) == IF t = 1 THEN first2 ELSE i2(t - 1)
    IN [vertices |->
            VecExtend(vs,
                  <<Pos(left[1], 0), Pos(right[1], 0)>>
               \o [j \in 1..(2 * runs) |->
                     IF j % 2 = 1 THEN a((j + 1) \div 2) ELSE b(j \div 2)]),
        indices |->
            VecExtend(is,
                  [j \in 1..(6 * runs) |->
                     LET t == ((j - 1) \div 6) + 1
                         c == (j - 1) % 6
                     IN CASE c = 0 -> index1_prev(t)
                          [] c = 1 -> index2_prev(t)
                          [] c = 2 -> i1(t)
                          [] c = 3 -> i1(t)
                          [] c = 4 -> index2_prev(t)
                          [] c = 5 -> i2(t)]),
        border_indices |->
            VecExtend(bs,
                  <<first1, first2>>
               \o [j \in 1..(4 * runs) |->
                     LET t == ((j - 1) \div 4) + 1
                         c == (j - 1) % 4
                     IN CASE c = 0 -> index1_prev(t)
                          [] c = 1 -> i1(t)
                          [] c = 2 -> index2_prev(t)
                          [] c = 3 -> i2(t)]
               \o <<i1(runs), i2(runs)>>),
        right_indices |->
            VecExtend(rs,
                  [j \in 1..(2 * runs) |->
                     LET t == ((j - 1) \div 2) + 1
                     IN IF j % 2 = 1 THEN index2_prev(t) ELSE i2(t)])]

\* the lists construct_buffers() builds
Lists(vs, is, bs, lis, csis) ==
    [vertices |-> vs, indices |-> is, border_indices |-> bs,
     lane_indices |-> lis, cross_section_indices |-> csis]

NoLists == Lists(EmptyVec, EmptyVec, EmptyVec, <<>>, <<>>)

\* one run of the loop `for lane in &road.lanes`
AddLane(st, lane) ==
    LET r == update_from_beziers(st.vertices, st.indices, st.border_indices,
                                 lane.left, lane.right, EmptyVec)
    IN IF r = Panic THEN Panic
       ELSE Lists(r.vertices, r.indices, r.border_indices,
                  Append(st.lane_indices,
                         [from |-> lane.from, to |-> lane.to,
                          right_border_indices |-> r.right_indices]),
                  st.cross_section_indices)

\* one run of the loop `for cross_section in &road.cross_sections`
AddCrossSection(st, cs) ==
    LET r == update_from_beziers(st.vertices, st.indices, st.border_indices,
                                 cs.left, cs.right, EmptyVec)
    IN IF r = Panic THEN Panic
       ELSE Lists(r.vertices, r.indices, r.border_indices,
                  st.lane_indices,
                  Append(st.cross_section_indices,
                         [from |-> cs.from, across |-> cs.across,
                          to |-> cs.to,
                          right_border_indices |-> r.right_indices]))

CurrentLists ==
    Lists(vertices, indices, border_indices, lane_indices,
          cross_section_indices)

SetLists(st) ==
    /\ vertices' = st.vertices
    /\ indices' = st.indices
    /\ border_indices' = st.border_indices
    /\ lane_indices' = st.lane_indices
    /\ cross_section_indices' = st.cross_section_indices

\* construct_buffers, the next lane of the road
LaneStep(nl, nr) ==
    /\ pc = "lanes"
    /\ Len(road.lanes) < MaxLanes
    /\ LET no == Len(road.lanes) + 1
           lane == Lane(no, no, no + 1, nl, nr)
           st == AddLane(CurrentLists, lane)
       IN /\ road' = [road EXCEPT !.lanes = Append(@, lane)]
          /\ IF st = Panic
             THEN pc' = "panicked" /\ UNCHANGED listVars
             ELSE pc' = pc /\ SetLists(st)
    /\ UNCHANGED <<bufferVars, chosen_path, path_changed, called>>
    /\ RenderOnly

\* construct_buffers, the lanes are through
EndLanes ==
    /\ pc = "lanes"
    /\ pc' = "cross_sections"
    /\ UNCHANGED <<road, listVars, bufferVars, chosen_path, path_changed,
                   called>>
    /\ RenderOnly

\* construct_buffers, the next cross-section of the road
CrossSectionStep(nl, nr) ==
    /\ pc = "cross_sections"
    /\ Len(road.cross_sections) < MaxCrossSections
    /\ LET no == Len(road.cross_sections) + 1
           cs == CrossSection(no, no, no + 1, no + 2, nl, nr)
           st == AddCrossSection(CurrentLists, cs)
       IN /\ road' = [road EXCEPT !.cross_sections = Append(@, cs)]
          /\ IF st = Panic
             THEN pc' = "panicked" /\ UNCHANGED listVars
             ELSE pc' = pc /\ SetLists(st)
    /\ UNCHANGED <<bufferVars, chosen_path, path_changed, called>>
    /\ RenderOnly

\* construct_buffers returns the buffers, and RoadRenderer::from keeps them
\* with an empty chosen-path buffer
Finish ==
    /\ pc = "cross_sections"
    /\ pc' = "done"
    /\ vertex_buffer' = vertices
    /\ index_buffer' = indices
    /\ border_index_buffer' = border_indices
    /\ chosen_index_buffer' = EmptyVec
    /\ called' = "from"
    /\ UNCHANGED <<road, listVars, chosen_path, path_changed>>
    /\ RenderOnly

NoPath == [lanes |-> {}, cross_sections |-> {}]

InitRender ==
    /\ pc = "lanes"
    /\ road = [lanes |-> <<>>, cross_sections |-> <<>>]
    /\ vertices = EmptyVec
    /\ indices = EmptyVec
    /\ border_indices = EmptyVec
    /\ lane_indices = <<>>
    /\ cross_section_indices = <<>>
    /\ vertex_buffer = EmptyVec
    /\ index_buffer = EmptyVec
    /\ border_index_buffer = EmptyVec
    /\ chosen_index_buffer = EmptyVec
    /\ chosen_path = NoPath
    /\ path_changed = FALSE
    /\ called = "none"

SegmentCounts == 0..MaxSegments

NextRender ==
    \/ \E nl \in SegmentCounts : \E nr \in SegmentCounts : LaneStep(nl, nr)
    \/ EndLanes
    \/ \E nl \in SegmentCounts : \E nr \in SegmentCounts :
            CrossSectionStep(nl, nr)
    \/ Finish

\* a lane of the length at which the vertices outnumber the u16 indices
LongSegments == 2048

\* construct_buffers on roads whose first lane may be a long one
NextLong ==
    \/ NextRender
    \/ road.lanes = <<>> /\ LaneStep(LongSegments, LongSegments)

----------------------------------------------------------------------------
(* renderer.rs: RoadRenderer::from on the road of Context::new, and        *)
(* RoadRenderer::update                                                    *)

RECURSIVE AddLanes(_, _, _)
AddLanes(st, lanes, i) ==
    IF st = Panic \/ i > Len(lanes) THEN st
    ELSE AddLanes(AddLane(st, lanes[i]), lanes, i + 1)

RECURSIVE AddCrossSections(_, _, _)
AddCrossSections(st, css, i) ==
    IF st = Panic \/ i > Len(css) THEN st
    ELSE AddCrossSections(AddCrossSection(st, css[i]), css, i + 1)

\* construct_buffers(lane_indices, cross_section_indices, display, road)
construct_buffers(rd) ==
    AddCrossSections(AddLanes(NoLists, rd.lanes, 1), rd.cross_sections, 1)

\* the road Context::new builds: a lane per road of the backbone, with a
\* segment per pair of neighbouring points, and its three cross-sections
ContextRoad ==
    [lanes |-> <<Lane(1, "A", "B", 2, 2),
                 Lane(2, "B", "C", 1, 1),
                 Lane(3, "B", "D", 1, 1)>>,
     cross_sections |-> <<CrossSection(1, "A", "B", "C", 1, 1),
                          CrossSection(2, "A", "B", "D", 1, 1),
                          CrossSection(3, "D", "B", "C", 1, 1)>>]

RECURSIVE ChosenIndices(_, _, _, _)
ChosenIndices(acc, entries, chosen, i) ==
    IF i > Len(entries) THEN acc
    ELSE ChosenIndices(
            IF entries[i].key \in chosen
            THEN VecExtend(acc, VecToSeq(entries[i].right_border_indices))
            ELSE acc,
            entries, chosen, i + 1)

\* RoadRenderer::update_chosen_path: the right borders of the lanes and
\* cross-sections of the chosen path
update_chosen_path(lis, csis, path) ==
    ChosenIndices(
        ChosenIndices(
            EmptyVec,
            [i \in 1..Len(lis) |->
                [key |-> <<lis[i].from, lis[i].to>>,
                 right_border_indices |-> lis[i].right_border_indices]],
            path.lanes, 1),
        [i \in 1..Len(csis) |->
            [key |-> <<csis[i].from, csis[i].across, csis[i].to>>,
             right_border_indices |-> csis[i].right_border_indices]],
        path.cross_sections, 1)

\* the paths the road may choose: up to two lanes, and a cross-section
\* that joins one of them
PathChoices ==
    LET ls == {<<road.lanes[i].from, road.lanes[i].to>> :
                    i \in 1..Len(road.lanes)}
        cs == {<<road.cross_sections[i].from, road.cross_sections[i].across,
                 road.cross_sections[i].to>> :
                    i \in 1..Len(road.cross_sections)}
    IN {p \in [lanes : SUBSET ls, cross_sections : SUBSET cs] :
            /\ Cardinality(p.lanes) <= 2
            /\ Cardinality(p.cross_sections) <= 1
            /\ \A c \in p.cross_sections :
                    \/ <<c[1], c[2]>> \in p.lanes
                    \/ <<c[2], c[3]>> \in p.lanes}

\* the road chooses a path and reports the change
ChoosePath(p) ==
    /\ pc = "done"
    /\ chosen_path' = p
    /\ path_changed' = TRUE
    /\ called' = "choose_path"
    /\ UNCHANGED <<pc, road, listVars, bufferVars>>
    /\ RenderOnly

\* the road stops reporting the change
ClearChanged ==
    /\ pc = "done"
    /\ path_changed
    /\ path_changed' = FALSE
    /\ called' = "clear_changed"
    /\ UNCHANGED <<pc, road, listVars, bufferVars, chosen_path>>
    /\ RenderOnly

\* mutant: the chosen-path buffer is rebuilt on every call
ShouldUpdate_Always(changed) == TRUE

\* the condition of RoadRenderer::update
ShouldUpdate(changed) == changed

\* RoadRenderer::update(display, road)
Update ==
    /\ pc = "done"
    /\ chosen_index_buffer' =
            IF ShouldUpdate(path_changed)
            THEN update_chosen_path(lane_indices, cross_section_indices,
                                    chosen_path)
            ELSE chosen_index_buffer
    /\ called' = "update"
    /\ UNCHANGED <<pc, road, listVars, vertex_buffer, index_buffer,
                   border_index_buffer, chosen_path, path_changed>>
    /\ RenderOnly

\* the renderer RoadRenderer::from(display, road, config) returns
InitUpdate ==
    LET st == construct_buffers(ContextRoad)
    IN /\ pc = "done"
       /\ road = ContextRoad
       /\ vertices = st.vertices
       /\ indices = st.indices
       /\ border_indices = st.border_indices
       /\ lane_indices = st.lane_indices
       /\ cross_section_indices = st.cross_section_indices
       /\ vertex_buffer = st.vertices
       /\ index_buffer = st.indices
       /\ border_index_buffer = st.border_indices
       /\ chosen_index_buffer = EmptyVec
       /\ chosen_path = NoPath
       /\ path_changed = FALSE
       /\ called = "from"

NextUpdate ==
    \/ \E p \in PathChoices : ChoosePath(p)
    \/ ClearChanged
    \/ Update

----------------------------------------------------------------------------
(* The renderer's properties *)

\* the lanes and cross-sections of the road, in the order of construction
Units == road.lanes \o road.cross_sections

\* those update_from_beziers has tessellated: all, but for the one it
\* panicked on
Tessellated == IF pc = "panicked" THEN Len(Units) - 1 ELSE Len(Units)

Segments(u) == Len(Units[u].left)

RECURSIVE SegmentsBefore(_)
SegmentsBefore(u) ==
    IF u = 1 THEN 0 ELSE SegmentsBefore(u - 1) + Segments(u - 1)

\* the number of vertices, triangle indices and border indices that u
\* tessellated units with n segments in all have
VertexCount(u, n) == 2 * u + 2 * BEZIER_VCOUNT * n
TriangleCount(n) == 6 * BEZIER_VCOUNT * n
BorderCount(u, n) == 4 * u + 4 * BEZIER_VCOUNT * n

\* the right-border index list kept for unit u
RightBorder(u) ==
    IF u <= Len(lane_indices)
    THEN lane_indices[u].right_border_indices
    ELSE cross_section_indices[u - Len(lane_indices)].right_border_indices

\* the point of step t of a boundary: parameter 0 of its first segment for
\* t = 0, then the parameters 1/16 .. 16/16 of segment after segment
StepPoint(boundary, t) ==
    IF t = 0 THEN Pos(boundary[1], 0)
    ELSE Pos(boundary[((t - 1) \div BEZIER_VCOUNT) + 1],
             ((t - 1) % BEZIER_VCOUNT) + 1)

\* C7: a lane or cross-section whose left boundary is empty or whose
\* boundaries differ in length makes update_from_beziers panic before it
\* emits a vertex or an index for it; so every tessellated lane or
\* cross-section pairs each left segment with one right segment.
C7_MismatchIsFatal ==
    /\ \A u \in 1..Len(Units) :
            ~BezierCountsOk(Units[u].left, Units[u].right)
                => pc = "panicked" /\ u = Len(Units)
    /\ pc = "panicked" =>
            LET bad == Units[Len(Units)]
                n == SegmentsBefore(Len(Units))
            IN /\ ~BezierCountsOk(bad.left, bad.right)
               /\ \A i \in 1..VecLen(vertices) :
                     /\ \A s \in 1..Len(bad.left) :
                            VecAt(vertices, i).bezier # bad.left[s]
                     /\ \A s \in 1..Len(bad.right) :
                            VecAt(vertices, i).bezier # bad.right[s]
               /\ VecLen(vertices) = VertexCount(Tessellated, n)
               /\ VecLen(indices) = TriangleCount(n)
               /\ VecLen(border_indices) = BorderCount(Tessellated, n)
               /\ Len(lane_indices) + Len(cross_section_indices) = Tessellated
    /\ \A u \in 1..Tessellated :
            /\ Len(Units[u].left) = Len(Units[u].right)
            /\ Len(Units[u].left) >= 1

\* a lane with fewer left than right segments stopped the construction
\* after another lane had been tessellated
C7_Witness ==
    /\ pc = "panicked"
    /\ VecLen(vertices) > 0
    /\ LET bad == Units[Len(Units)]
       IN Len(bad.left) > 0 /\ Len(bad.left) < Len(bad.right)

\* C9: a lane or cross-section of n >= 1 paired segments adds 2 + 32n
\* vertices (the pair at parameter 0 of the first segment, then a pair at
\* k/16, k = 1..16, of every segment), 96n triangle indices, 4 + 64n
\* border indices and 32n right-border indices; the last pair of a segment
\* starts the next one, whose parameter 0 gets no vertex.
C9_SixteenStepsPerSegment ==
    /\ VecLen(vertices) =
            VertexCount(Tessellated, SegmentsBefore(Tessellated + 1))
    /\ VecLen(indices) = TriangleCount(SegmentsBefore(Tessellated + 1))
    /\ VecLen(border_indices) =
            BorderCount(Tessellated, SegmentsBefore(Tessellated + 1))
    /\ \A u \in 1..Tessellated :
            LET n == Segments(u)
                runs == BEZIER_VCOUNT * n
                vbase == VertexCount(u - 1, SegmentsBefore(u))
                ibase == TriangleCount(SegmentsBefore(u))
            IN /\ n >= 1
               /\ VecLen(RightBorder(u)) = 32 * n
               /\ \A t \in 0..runs :
                     /\ VecAt(vertices, vbase + 2 * t + 1)
                            = StepPoint(Units[u].left, t)
                     /\ VecAt(vertices, vbase + 2 * t + 2)
                            = StepPoint(Units[u].right, t)
               /\ \A t \in 1..(runs - 1) :
                     /\ VecAt(RightBorder(u), 2 * t + 1)
                            = VecAt(RightBorder(u), 2 * t)
                     /\ VecAt(indices, ibase + 6 * t + 1)
                            = VecAt(indices, ibase + 6 * (t - 1) + 3)
                     /\ VecAt(indices, ibase + 6 * t + 2)
                            = VecAt(indices, ibase + 6 * (t - 1) + 6)
    /\ \A i \in 1..VecLen(vertices) :
            VecAt(vertices, i).k = 0 => VecAt(vertices, i).bezier.seg = 1

\* a lane of two segments and a cross-section after it were tessellated
C9_Witness ==
    /\ pc = "done"
    /\ Tessellated >= 2
    /\ Segments(1) = 2
    /\ VecLen(vertices) > 2 + 32 * 2
    /\ \E i \in 1..VecLen(vertices) :
            VecAt(vertices, i) = Pos(road.lanes[1].left[2], 1)

PointsAt(index, point) ==
    index < VecLen(vertices) /\ VecAt(vertices, index + 1) = point

\* C10: every index of the triangle list, of the border list and of the
\* right-border lists is the position in the vertex list of the vertex it
\* was created for, and so is below the number of vertices, however many
\* vertices there are.
C10_IndicesPointAtTheirVertices ==
    \A u \in 1..Tessellated :
        LET runs == BEZIER_VCOUNT * Segments(u)
            ibase == TriangleCount(SegmentsBefore(u))
            bbase == BorderCount(u - 1, SegmentsBefore(u))
            L(t) == StepPoint(Units[u].left, t)
            R(t) == StepPoint(Units[u].right, t)
        IN /\ PointsAt(VecAt(border_indices, bbase + 1), L(0))
           /\ PointsAt(VecAt(border_indices, bbase + 2), R(0))
           /\ PointsAt(VecAt(border_indices, bbase + 4 * runs + 3), L(runs))
           /\ PointsAt(VecAt(border_indices, bbase + 4 * runs + 4), R(runs))
           /\ \A t \in 1..runs :
                 /\ PointsAt(VecAt(indices, ibase + 6 * (t - 1) + 1), L(t - 1))
                 /\ PointsAt(VecAt(indices, ibase + 6 * (t - 1) + 2), R(t - 1))
                 /\ PointsAt(VecAt(indices, ibase + 6 * (t - 1) + 3), L(t))
                 /\ PointsAt(VecAt(indices, ibase + 6 * (t - 1) + 4), L(t))
                 /\ PointsAt(VecAt(indices, ibase + 6 * (t - 1) + 5), R(t - 1))
                 /\ PointsAt(VecAt(indices, ibase + 6 * (t - 1) + 6), R(t))
                 /\ PointsAt(VecAt(border_indices, bbase + 4 * (t - 1) + 3),
                             L(t - 1))
                 /\ PointsAt(VecAt(border_indices, bbase + 4 * (t - 1) + 4),
                             L(t))
                 /\ PointsAt(VecAt(border_indices, bbase + 4 * (t - 1) + 5),
                             R(t - 1))
                 /\ PointsAt(VecAt(border_indices, bbase + 4 * (t - 1) + 6),
                             R(t))
                 /\ PointsAt(VecAt(RightBorder(u), 2 * t - 1), R(t - 1))
                 /\ PointsAt(VecAt(RightBorder(u), 2 * t), R(t))

\* the buffers and index lists of the renderer
rendererVars == <<bufferVars, lane_indices, cross_section_indices>>

\* C8: RoadRenderer::update rebuilds the chosen-path buffer only when the
\* road reports a changed chosen path; a call while it reports none leaves
\* the chosen-path buffer and every other buffer and index list of the
\* renderer as they were.
C8_UpdateOnlyOnChange ==
    [][/\ (called' = "update" /\ ~path_changed)
            => UNCHANGED rendererVars
       /\ chosen_index_buffer' # chosen_index_buffer
            => called' = "update" /\ path_changed]_vars

\* update was called while no change was reported, and the chosen-path
\* buffer still is not that of the road's chosen path
C8_Witness ==
    /\ called = "update"
    /\ ~path_changed
    /\ chosen_index_buffer #
            update_chosen_path(lane_indices, cross_section_indices,
                               chosen_path)

----------------------------------------------------------------------------
(* The specifications: each follows one part, the others stand still *)

ReducerIdle ==
    /\ camera = Camera_new
    /\ add_car = Nope
    /\ add_car_type = Normal(GoNormal)
    /\ cars = <<>>
    /\ chosen_car = None
    /\ processed = <<>>
    /\ camera_moves = 0

FuzzyIdle ==
    /\ dev = Input(Zero, 0)
    /\ member = NotEvaluated
    /\ prev_dev = Input(Zero, 0)
    /\ prev_member = NotEvaluated

StartReducer == InitReducer /\ FuzzyIdle /\ InitRender

StartFuzzy == ReducerIdle /\ InitFuzzy /\ InitRender

StartRender == ReducerIdle /\ FuzzyIdle /\ InitRender

StartUpdate == ReducerIdle /\ FuzzyIdle /\ InitUpdate

SpecReducer == StartReducer /\ [][NextReducer]_vars

SpecFuzzy == StartFuzzy /\ [][NextFuzzy]_vars

SpecRender == StartRender /\ [][NextRender]_vars

SpecLong == StartRender /\ [][NextLong]_vars

SpecUpdate == StartUpdate /\ [][NextUpdate]_vars

====
